---- MODULE Spec2Model ----
(***************************************************************************)
(* Model of the MCP client of src/mcp_client.py: the handshake with its    *)
(* three request shapes, tool discovery with its three param shapes, tool  *)
(* invocation, the bootstrap loops of bootstrap_clients, and the           *)
(* subprocess transport's write/read round trip; and of the plan dispatch  *)
(* of src/app.py.                                                          *)
(*                                                                         *)
(* Five specifications share the variables:                                *)
(*   Spec         one client object driven by an arbitrary sequential      *)
(*                caller                                                   *)
(*   SpecBoot     bootstrap_clients driving one client after the other     *)
(*   SpecStdio    two coroutines calling call_tool on one StdioMCPClient,  *)
(*                and notify_initialized on it                             *)
(*   SpecDispatch the app's script runs, one plan after the other          *)
(*   SpecFramer   one _read_json_line call, up to its budget of lines      *)
(***************************************************************************)
EXTENDS Integers, Sequences, FiniteSets, TLC

\* ------------------------------------------------------------------ bounds
MaxRpc == 3

MaxCalls == 2

MaxNoise == 2

MaxRuns == 1

MaxPending == 1

MaxPosts == 2

\* ------------------------------------------------------- program constants
INVALID_PARAMS == -32602

ID_INITIALIZE == 1

ID_TOOLS_LIST == 2

ID_TOOLS_CALL == 3

READ_BUDGET == 500

\* ------------------------------------------------------------ JSON values
\* The "error" member of a response: absent, a dict with a code, or a value
\* that is no dict (a string, null).
NoError == [present |-> FALSE, isdict |-> FALSE, code |-> 0]

ErrDict(c) == [present |-> TRUE, isdict |-> TRUE, code |-> c]

ErrNonDict == [present |-> TRUE, isdict |-> FALSE, code |-> 0]

ErrorCodes == {INVALID_PARAMS, -32000}

Errors == {ErrDict(c) : c \in ErrorCodes} \cup {ErrNonDict}

\* The "result" member of a response: absent, or an object that may hold a
\* protocolVersion ("" when it holds none) and a "tools" list.
NoResult == [present |-> FALSE, protocolVersion |-> "", has_tools |-> FALSE, tools |-> <<>>]

ResultA == [present |-> TRUE, protocolVersion |-> "2024-09", has_tools |-> TRUE, tools |-> <<"t1", "t2">>]

ResultB == [present |-> TRUE, protocolVersion |-> "", has_tools |-> TRUE, tools |-> <<"t2">>]

Results == {NoResult, ResultA, ResultB}

\* What one _rpc call gives its caller: a response, which is a JSON object, or
\* an exception.
Resp(e, r) == [t |-> "resp", error |-> e, result |-> r, fault |-> ""]

Exc(f) == [t |-> "exc", error |-> NoError, result |-> NoResult, fault |-> f]

Responses == {Resp(NoError, r) : r \in Results} \cup {Resp(e, NoResult) : e \in Errors}

\* `"error" in resp`
HasError(out) == out.error.present

\* What a raised error carries: a response's error member, or the exception
\* the transport raised.
NoFailure == [src |-> "none", error |-> NoError, fault |-> ""]

FromError(e) == [src |-> "error", error |-> e, fault |-> ""]

FromExc(f) == [src |-> "exc", error |-> NoError, fault |-> f]

\* ---------------------------------------------------------------- names
HttpNames == {"h1", "h2"}

StdioNames == {"p1", "p2"}

Names == {"s"} \cup HttpNames \cup StdioNames

VARIABLES
    cli,        \* the client object in use: [name, kind, strict_init, tools]
    proc,       \* per name: the child of its StdioMCPClient ("none", "running", "exited")
    log,        \* every _rpc/_notify call made so far, with what came back
    pc,         \* the method of cli that is running ("idle" when none is)
    k,          \* the loop index of the running initialize / _rpc_lenient
    last_err,   \* initialize's local last_err
    call,       \* the number of method calls started so far
    outcome,    \* how the last finished method call ended
    boot,       \* bootstrap_clients' frame: [pc, http_cfg, stdio_cfg, notify_list, strict, i, tried]
    clients,    \* bootstrap_clients' dict, as the sequence of its insertions
    tasks,      \* SpecStdio: per coroutine, its position in call_tool
    stdin,      \* SpecStdio: the request lines written to the child's stdin
    stdout,     \* SpecStdio: the lines the child has written and nobody has read
    pipe,       \* SpecStdio: the order of the writes and reads on the child's pipes
    app,        \* the app's script run: [plan, bootstrapped, called, shown, json]
    http        \* SpecHttp: the last POST of HTTPMCPClient._rpc: [n, method, reply, out]

sessionVars == <<cli, proc, log, pc, k, last_err, call, outcome>>

bootVars == <<boot, clients>>

stdioVars == <<tasks, stdin, stdout, pipe>>

appVars == <<app>>

httpVars == <<http>>

vars == <<cli, proc, log, pc, k, last_err, call, outcome, boot, clients, tasks, stdin, stdout, pipe, app, http>>

\* ------------------------------------------------------------- transport
HttpFaults == {"connect_error", "http_status"}

StdioFaults == {"broken_pipe", "read_failed"}

\* What the POST of HTTPMCPClient._rpc meets: no response at all (connection
\* refused, timeout), or a response with a status, 2xx or not, and a body
\* that is a JSON object, text that is no JSON, or empty.
NoReply == [t |-> "none", ok |-> FALSE, body |-> "empty", value |-> Resp(NoError, NoResult)]

HttpReply(ok, body, value) == [t |-> "reply", ok |-> ok, body |-> body, value |-> value]

HttpReplies ==
    {NoReply}
    \cup {HttpReply(ok, "json", v) : ok \in BOOLEAN, v \in Responses}
    \cup {HttpReply(ok, b, Resp(NoError, NoResult)) : ok \in BOOLEAN, b \in {"text", "empty"}}

\* HttpRpc raising on an error member of the body.
HttpRpc_error_raises(reply) ==
    IF reply.t = "none" THEN Exc("connect_error")
    ELSE IF ~reply.ok THEN Exc("http_status")
    ELSE IF reply.body = "json" /\ HasError(reply.value) THEN Exc("http_status")
    ELSE IF reply.body = "json" THEN reply.value
    ELSE Resp(NoError, NoResult)

\* HTTPMCPClient._rpc on what the POST met: the exception of the POST, the
\* exception of raise_for_status, the parsed body, or {} for a body that
\* r.json() cannot parse.
HttpRpc(reply) ==
    IF reply.t = "none" THEN Exc("connect_error")
    ELSE IF ~reply.ok THEN Exc("http_status")
    ELSE IF reply.body = "json" THEN reply.value
    ELSE Resp(NoError, NoResult)

\* Everything HTTPMCPClient._rpc can give its caller.
HttpRpcOutcomes == {HttpRpc(reply) : reply \in HttpReplies}

\* StdioMCPClient._rpc: a child that has exited raises at once; otherwise the
\* line is written (the write may hit a broken pipe) and _read_json_line
\* returns a JSON value or raises (end of stream, or gave up).
StdioRpcOutcomes(state) ==
    IF state # "running" THEN {Exc("process_exited")}
    ELSE Responses \cup {Exc(f) : f \in StdioFaults}

\* RpcOutcomes of a transport that a fault leaves unusable.
RpcOutcomes_dead_after_fault(c) ==
    IF outcome.status = "raised" /\ outcome.failure.src = "exc"
    THEN {Exc(IF c.kind = "http" THEN "connect_error" ELSE "broken_pipe")}
    ELSE IF c.kind = "http" THEN HttpRpcOutcomes ELSE StdioRpcOutcomes(proc[c.name])

RpcOutcomes(c) ==
    IF c.kind = "http" THEN HttpRpcOutcomes ELSE StdioRpcOutcomes(proc[c.name])

\* Whether the request reached the remote: not when the child had exited, the
\* write failed or the connection could not be made.
OnWire(out) == out.t \in {"resp", "none"} \/ out.fault \in {"http_status", "read_failed"}

Entry(n, op, method, has_id, id, params, out) ==
    [call |-> n, op |-> op, method |-> method, has_id |-> has_id, id |-> id,
     params |-> params, wire |-> OnWire(out), out |-> out]

\* BaseMCPClient.__init__ (and the subclasses'): no tools yet, the flag from
\* the environment.
NewClient(name, kind, strict) ==
    [name |-> name, kind |-> kind, strict_init |-> strict, tools |-> <<>>]

\* The strings a client object holds in its attributes: __init__ sets name,
\* tools and strict_init, and no method adds an attribute.
StringAttrs(c) == {c.name}

NoOutcome ==
    [call |-> 0, op |-> "none", status |-> "none", raised_as |-> "",
     failure |-> NoFailure, value |-> Resp(NoError, NoResult)]

Returned(n, op, value) ==
    [call |-> n, op |-> op, status |-> "returned", raised_as |-> "",
     failure |-> NoFailure, value |-> value]

Raised(n, op, as, failure) ==
    [call |-> n, op |-> op, status |-> "raised", raised_as |-> as,
     failure |-> failure, value |-> Resp(NoError, NoResult)]

\* -------------------------------------------------------------- handshake
\* try_orders with the flag ignored.
try_orders_flag_ignored(strict) == <<"Strict", "Minimal", "Empty">>

\* initialize: the order of the three payloads, by the strict_init flag.
try_orders(strict) ==
    IF strict THEN <<"Strict", "Minimal", "Empty">>
    ELSE <<"Minimal", "Empty", "Strict">>

\* InitStep with the exception handler not recording the exception.
InitStep_exc_unrecorded(last, out) ==
    IF out.t = "exc" THEN [ret |-> FALSE, last_err |-> last]
    ELSE IF HasError(out) THEN [ret |-> FALSE, last_err |-> FromError(out.error)]
    ELSE [ret |-> TRUE, last_err |-> last]

\* One pass of initialize's loop body on what _rpc gave: whether initialize
\* returns now, and last_err afterwards.
InitStep(last, out) ==
    IF out.t = "exc" THEN [ret |-> FALSE, last_err |-> FromExc(out.fault)]
    ELSE IF HasError(out) THEN [ret |-> FALSE, last_err |-> FromError(out.error)]
    ELSE [ret |-> TRUE, last_err |-> last]

\* The number of payloads initialize loops over.
InitShapes == Len(try_orders(TRUE))

\* The call of initialize, up to its first _rpc.
BeginInitialize ==
    /\ pc' = "init"
    /\ k' = 1
    /\ last_err' = NoFailure
    /\ call' = call + 1

\* initialize returns or raises: its frame, with its locals, is gone.
InitLeave ==
    /\ pc' = "idle"
    /\ k' = 1
    /\ last_err' = NoFailure

StartInitialize ==
    /\ pc = "idle"
    /\ call < MaxCalls
    /\ BeginInitialize
    /\ UNCHANGED <<cli, proc, log, outcome>>

\* One `resp = await self._rpc(init_payload)` of initialize and the loop body
\* after it; after the last payload, the raise.
InitAttempt ==
    /\ pc = "init"
    /\ Len(log) < MaxRpc
    /\ \E out \in RpcOutcomes(cli) :
        LET st == InitStep(last_err, out) IN
        /\ log' = Append(log, Entry(call, "initialize", "initialize", TRUE, ID_INITIALIZE,
                                    try_orders(cli.strict_init)[k], out))
        /\ IF st.ret
           THEN /\ InitLeave
                /\ outcome' = Returned(call, "initialize", Resp(NoError, out.result))
           ELSE IF k = InitShapes
           THEN /\ InitLeave
                /\ outcome' = Raised(call, "initialize", "initialize failed", st.last_err)
           ELSE /\ k' = k + 1
                /\ last_err' = st.last_err
                /\ UNCHANGED <<pc, outcome>>
    /\ UNCHANGED <<cli, proc, call>>

\* -------------------------------------------------------------- discovery
\* _rpc_lenient's three payloads: no params, params {}, params null.
LenientShapes == <<"omitted", "emptyobj", "null">>

\* LenientStep trying the next shape after any error.
LenientStep_any_error(out) == IF ~HasError(out) THEN "return" ELSE "continue"

\* _rpc_lenient's loop body on a response: return it, or try the next shape.
LenientStep(out) ==
    IF ~HasError(out) THEN "return"
    ELSE IF ~out.error.isdict \/ out.error.code # INVALID_PARAMS THEN "return"
    ELSE "continue"

\* ToolsOf adding the response's tools to the catalog held so far.
ToolsOf_merge(out) ==
    cli.tools \o (IF out.result.present /\ out.result.has_tools THEN out.result.tools ELSE <<>>)

\* (resp.get("result") or {}).get("tools", [])
ToolsOf(out) ==
    IF out.result.present /\ out.result.has_tools THEN out.result.tools ELSE <<>>

\* ListToolsFinish without the raise on an error.
ListToolsFinish_no_raise(n, out) ==
    [outcome |-> Returned(n, "list_tools", out), tools |-> ToolsOf(out)]

\* list_tools after _rpc_lenient returned resp: raise its error, or store the
\* tools and return them.
ListToolsFinish(n, out) ==
    IF HasError(out)
    THEN [outcome |-> Raised(n, "list_tools", "error", FromError(out.error)),
          tools |-> cli.tools]
    ELSE [outcome |-> Returned(n, "list_tools", out), tools |-> ToolsOf(out)]

\* The call of list_tools, up to _rpc_lenient's first _rpc.
BeginListTools ==
    /\ pc' = "list"
    /\ k' = 1
    /\ call' = call + 1
    /\ UNCHANGED last_err

\* list_tools returns or raises: its frame and _rpc_lenient's are gone.
ListLeave ==
    /\ pc' = "idle"
    /\ k' = 1

StartListTools ==
    /\ pc = "idle"
    /\ call < MaxCalls
    /\ BeginListTools
    /\ UNCHANGED <<cli, proc, log, outcome>>

\* One `resp = await self._rpc(payload)` of _rpc_lenient and the loop body
\* after it; an exception of _rpc leaves _rpc_lenient and list_tools.
ListAttempt ==
    /\ pc = "list"
    /\ Len(log) < MaxRpc
    /\ \E out \in RpcOutcomes(cli) :
        /\ log' = Append(log, Entry(call, "list_tools", "tools/list", TRUE, ID_TOOLS_LIST,
                                    LenientShapes[k], out))
        /\ IF out.t = "exc"
           THEN /\ ListLeave
                /\ outcome' = Raised(call, "list_tools", "transport", FromExc(out.fault))
                /\ UNCHANGED cli
           ELSE IF LenientStep(out) = "return" \/ k = Len(LenientShapes)
           THEN LET fin == ListToolsFinish(call, out) IN
                /\ ListLeave
                /\ outcome' = fin.outcome
                /\ cli' = [cli EXCEPT !.tools = fin.tools]
           ELSE /\ k' = k + 1
                /\ UNCHANGED <<pc, outcome, cli>>
    /\ UNCHANGED <<proc, last_err, call>>

\* -------------------------------------------------------------- invocation
ToolNames == {"t1", "t2"}

\* CallToolRpcs sending the request again after a transport fault.
CallToolRpcs_retry(n, name, out) ==
    IF out.t = "exc"
    THEN <<Entry(n, "call_tool", "tools/call", TRUE, ID_TOOLS_CALL, name, out),
           Entry(n, "call_tool", "tools/call", TRUE, ID_TOOLS_CALL, name, out)>>
    ELSE <<Entry(n, "call_tool", "tools/call", TRUE, ID_TOOLS_CALL, name, out)>>

\* The _rpc calls one call_tool invocation makes, given what the first gives.
CallToolRpcs(n, name, out) ==
    <<Entry(n, "call_tool", "tools/call", TRUE, ID_TOOLS_CALL, name, out)>>

\* call_tool after its _rpc: the exception as it is, the error raised, or the
\* whole response returned.
CallToolFinish(n, out) ==
    IF out.t = "exc" THEN Raised(n, "call_tool", "transport", FromExc(out.fault))
    ELSE IF HasError(out) THEN Raised(n, "call_tool", "error", FromError(out.error))
    ELSE Returned(n, "call_tool", out)

\* call_tool(name, arguments), from its call to its return or raise.
CallTool ==
    /\ pc = "idle"
    /\ call < MaxCalls
    /\ Len(log) < MaxRpc
    /\ call' = call + 1
    /\ \E name \in ToolNames, out \in RpcOutcomes(cli) :
        /\ log' = log \o CallToolRpcs(call + 1, name, out)
        /\ outcome' = CallToolFinish(call + 1, out)
    /\ UNCHANGED <<cli, proc, pc, k, last_err>>

\* ------------------------------------------------------------ notification
\* A notification written with no reply awaited (StdioMCPClient._notify).
Sent == [t |-> "none", error |-> NoError, result |-> NoResult, fault |-> ""]

\* What sending the notification meets. BaseMCPClient._notify goes through
\* _rpc; StdioMCPClient._notify returns at once when the child has exited and
\* otherwise writes and flushes the line, which may hit a broken pipe.
NotifyOutcomes(c) ==
    IF c.kind = "http" THEN HttpRpcOutcomes
    ELSE IF proc[c.name] # "running" THEN {Exc("process_exited")}
    ELSE {Sent, Exc("broken_pipe")}

\* Whether _notify handed a line to the transport at all.
NotifyCalls(c, out) == c.kind = "http" \/ out.fault # "process_exited"

\* How notify_initialized ends: BaseMCPClient._notify swallows every exception
\* of _rpc; StdioMCPClient._notify has no handler around its write and flush.
NotifyFinish(n, c, out) ==
    IF c.kind # "http" /\ out.fault = "broken_pipe"
    THEN Raised(n, "notify_initialized", "transport", FromExc(out.fault))
    ELSE Returned(n, "notify_initialized", Resp(NoError, NoResult))

\* notify_initialized for client c meeting out: the log and the outcome.
DoNotify(c, out) ==
    /\ call' = call + 1
    /\ log' = IF NotifyCalls(c, out)
              THEN Append(log, Entry(call + 1, "notify_initialized",
                                     "notifications/initialized", FALSE, 0, "emptyobj", out))
              ELSE log
    /\ outcome' = NotifyFinish(call + 1, c, out)

\* notify_initialized(), from its call to its return or raise.
NotifyInitialized ==
    /\ pc = "idle"
    /\ call < MaxCalls
    /\ Len(log) < MaxRpc
    /\ \E out \in NotifyOutcomes(cli) : DoNotify(cli, out)
    /\ UNCHANGED <<cli, proc, pc, k, last_err>>

\* ------------------------------------------------------------ the child
\* The child of a StdioMCPClient exits on its own.
ChildExit ==
    /\ \E n \in Names :
        /\ proc[n] = "running"
        /\ proc' = [proc EXCEPT ![n] = "exited"]
    /\ UNCHANGED <<cli, log, pc, k, last_err, call, outcome>>

\* -------------------------------------------------------------- bootstrap
\* No client under a name of the dict.
NoClient == [name |-> "", kind |-> "none", strict_init |-> FALSE, tools |-> <<>>]

BootIdle ==
    [pc |-> "off", http_cfg |-> <<>>, stdio_cfg |-> <<>>, notify_list |-> {},
     strict |-> TRUE, i |-> 1, tried |-> {}]

\* Propagates with every awaited method wrapped in a handler that passes.
Propagates_swallowed(o) == FALSE

\* Whether the end o of an awaited method leaves bootstrap_clients: its awaits
\* stand in no try block, so every raise does.
Propagates(o) == o.status = "raised"

\* bootstrap_clients raises what the awaited method raised.
BootRaise == boot' = [boot EXCEPT !.pc = "raised"]

\* `clients[name] = cli` and the next pass of the for loop.
BootInsert(next_pc) ==
    /\ clients' = [clients EXCEPT ![cli.name] = cli]
    /\ boot' = [boot EXCEPT !.pc = next_pc, !.i = boot.i + 1]

\* The head of the HTTP loop: the next pair gives a client, whose initialize
\* is awaited; after the last pair the STDIO loop starts.
BootHttpNext ==
    /\ boot.pc = "http_next"
    /\ IF boot.i <= Len(boot.http_cfg)
       THEN /\ cli' = NewClient(boot.http_cfg[boot.i], "http", boot.strict)
            /\ log' = <<>>
            /\ BeginInitialize
            /\ boot' = [boot EXCEPT !.pc = "http_init", !.tried = @ \cup {boot.http_cfg[boot.i]}]
       ELSE /\ boot' = [boot EXCEPT !.pc = "stdio_next", !.i = 1]
            /\ UNCHANGED <<cli, log, pc, k, last_err, call>>
    /\ UNCHANGED <<proc, outcome, clients>>

\* `await cli.initialize()` is over: its raise leaves bootstrap_clients,
\* otherwise list_tools is awaited.
BootHttpAfterInit ==
    /\ boot.pc = "http_init"
    /\ pc = "idle"
    /\ IF Propagates(outcome)
       THEN /\ BootRaise
            /\ UNCHANGED <<pc, k, last_err, call>>
       ELSE /\ BeginListTools
            /\ boot' = [boot EXCEPT !.pc = "http_list"]
    /\ UNCHANGED <<cli, proc, log, outcome, clients>>

\* `await cli.list_tools()` is over: its raise leaves bootstrap_clients,
\* otherwise the client enters the dict.
BootHttpAfterList ==
    /\ boot.pc = "http_list"
    /\ pc = "idle"
    /\ IF Propagates(outcome)
       THEN BootRaise /\ UNCHANGED clients
       ELSE BootInsert("http_next")
    /\ UNCHANGED <<cli, proc, log, pc, k, last_err, call, outcome>>

\* The head of the STDIO loop: the next pair gives a client, whose constructor
\* spawns the child, and its initialize is awaited; after the last pair
\* bootstrap_clients returns the dict.
BootStdioNext ==
    /\ boot.pc = "stdio_next"
    /\ IF boot.i <= Len(boot.stdio_cfg)
       THEN /\ cli' = NewClient(boot.stdio_cfg[boot.i], "stdio", boot.strict)
            /\ proc' = [proc EXCEPT ![boot.stdio_cfg[boot.i]] = "running"]
            /\ log' = <<>>
            /\ BeginInitialize
            /\ boot' = [boot EXCEPT !.pc = "stdio_init", !.tried = @ \cup {boot.stdio_cfg[boot.i]}]
       ELSE /\ boot' = [boot EXCEPT !.pc = "returned"]
            /\ UNCHANGED <<cli, proc, log, pc, k, last_err, call>>
    /\ UNCHANGED <<outcome, clients>>

\* NotifyWanted for every STDIO server.
NotifyWanted_always(name, notify_list) == TRUE

\* `if name in notify_list`
NotifyWanted(name, notify_list) == name \in notify_list

\* `await cli.initialize()` is over: its raise leaves bootstrap_clients; a
\* name of notify_list gets the notification next, any other list_tools.
BootStdioAfterInit ==
    /\ boot.pc = "stdio_init"
    /\ pc = "idle"
    /\ IF Propagates(outcome)
       THEN /\ BootRaise
            /\ UNCHANGED <<pc, k, last_err, call>>
       ELSE IF NotifyWanted(cli.name, boot.notify_list)
       THEN /\ boot' = [boot EXCEPT !.pc = "stdio_notify"]
            /\ UNCHANGED <<pc, k, last_err, call>>
       ELSE /\ BeginListTools
            /\ boot' = [boot EXCEPT !.pc = "stdio_list"]
    /\ UNCHANGED <<cli, proc, log, outcome, clients>>

\* `await cli.notify_initialized()`, whole; list_tools is awaited after it.
BootStdioNotify ==
    /\ boot.pc = "stdio_notify"
    /\ \E out \in NotifyOutcomes(cli) : DoNotify(cli, out)
    /\ boot' = [boot EXCEPT !.pc = "stdio_notified"]
    /\ UNCHANGED <<cli, proc, pc, k, last_err, clients>>

BootStdioAfterNotify ==
    /\ boot.pc = "stdio_notified"
    /\ IF Propagates(outcome)
       THEN /\ BootRaise
            /\ UNCHANGED <<pc, k, last_err, call>>
       ELSE /\ BeginListTools
            /\ boot' = [boot EXCEPT !.pc = "stdio_list"]
    /\ UNCHANGED <<cli, proc, log, outcome, clients>>

BootStdioAfterList ==
    /\ boot.pc = "stdio_list"
    /\ pc = "idle"
    /\ IF Propagates(outcome)
       THEN BootRaise /\ UNCHANGED clients
       ELSE BootInsert("stdio_next")
    /\ UNCHANGED <<cli, proc, log, pc, k, last_err, call, outcome>>

\* ------------------------------------------- the subprocess pipe, stepwise
\* The coroutines that call call_tool on the one StdioMCPClient.
Tasks == {1, 2}

TaskIdle == [pc |-> "ready", n |-> 0, got |-> 0, fault |-> ""]

\* A line of the child's stdout: a reply to the request that coroutine `re`
\* wrote (0: to none), or text that is no JSON value.
Line(kind, re) == [kind |-> kind, re |-> re]

NoiseLines == {Line("noise", 0), Line("blank", 0), Line("badjson", 0), Line("json", 0)}

\* FrameLine taking every line that starts with { or [ for a value.
FrameLine_any_brace(line) == IF line.kind \in {"json", "badjson"} THEN "value" ELSE "skip"

\* _read_json_line on one line: a blank line, a line not starting with { or [
\* and a line json.loads rejects are passed over; any other is the value.
FrameLine(line) == IF line.kind = "json" THEN "value" ELSE "skip"

\* The traffic so far that is neither a request nor a reply: the lines of the
\* child that answer nothing, and the notification calls.
NoiseCount ==
    Cardinality({i \in 1..Len(stdout) : stdout[i].re = 0})
    + Cardinality({i \in 1..Len(pipe) : pipe[i].ev = "read" /\ pipe[i].re = 0})
    + call

\* ProcessGone with the poll left out.
ProcessGone_unchecked(state) == FALSE

\* `self.proc.poll() is not None`
ProcessGone(state) == state # "running"

\* StdioMCPClient._rpc up to its first suspension: the poll, the write and the
\* flush, then the first readline handed to the executor.
TaskSend(t) ==
    /\ tasks[t].pc = "ready"
    /\ IF ProcessGone(proc[cli.name])
       THEN /\ tasks' = [tasks EXCEPT ![t] = [@ EXCEPT !.pc = "raised", !.fault = "process_exited"]]
            /\ UNCHANGED <<stdin, pipe>>
       ELSE \/ /\ stdin' = Append(stdin, t)
               /\ pipe' = Append(pipe, [ev |-> "write", task |-> t, re |-> t, kind |-> "json"])
               /\ tasks' = [tasks EXCEPT ![t] = [@ EXCEPT !.pc = "reading"]]
            \/ /\ tasks' = [tasks EXCEPT ![t] = [@ EXCEPT !.pc = "raised", !.fault = "broken_pipe"]]
               /\ UNCHANGED <<stdin, pipe>>
    /\ UNCHANGED <<stdout>>

\* The body of _read_json_line's loop on a line that was read, for the caller
\* whose frame is task: the value returned, the line passed over, or, the
\* range being used up, the raise after the loop.
ReadStep(task, line) ==
    IF FrameLine(line) = "value"
    THEN [task EXCEPT !.pc = "returned", !.got = line.re, !.n = @ + 1]
    ELSE IF task.n + 1 = READ_BUDGET
    THEN [task EXCEPT !.pc = "raised", !.fault = "gave up", !.n = @ + 1]
    ELSE [task EXCEPT !.n = @ + 1]

\* ReadEof passing over the end of the stream as over a blank line.
ReadEof_counts(task) == ReadStep(task, Line("blank", 0))

\* The body of _read_json_line's loop when readline came back empty, at the
\* end of the stream: the raise, whatever is left of the range.
ReadEof(task) == [task EXCEPT !.pc = "raised", !.fault = "no stdout"]

\* One readline of _read_json_line comes back and the loop body runs on it.
TaskReadLine(t) ==
    /\ tasks[t].pc = "reading"
    /\ IF stdout = <<>>
       THEN /\ proc[cli.name] # "running"
            /\ tasks' = [tasks EXCEPT ![t] = ReadEof(tasks[t])]
            /\ UNCHANGED <<stdout, pipe>>
       ELSE LET line == Head(stdout) IN
            /\ stdout' = Tail(stdout)
            /\ pipe' = Append(pipe, [ev |-> "read", task |-> t, re |-> line.re, kind |-> line.kind])
            /\ tasks' = [tasks EXCEPT ![t] = ReadStep(tasks[t], line)]
    /\ UNCHANGED <<stdin>>

\* One call of _read_json_line by coroutine 1 on a child that writes as long
\* as it likes: the child puts a line on its stdout.
FramerFeed ==
    /\ tasks[1].pc = "reading"
    /\ proc[cli.name] = "running"
    /\ Len(stdout) < MaxPending
    /\ \E line \in NoiseLines \cup {Line("json", 1)} : stdout' = Append(stdout, line)
    /\ UNCHANGED <<tasks, stdin, pipe>>

\* The readline of that call comes back, with the oldest line or at the end
\* of the stream, and the loop body runs; while the child lives and has
\* written nothing, readline does not come back.
FramerRead ==
    /\ tasks[1].pc = "reading"
    /\ IF stdout = <<>>
       THEN /\ proc[cli.name] # "running"
            /\ tasks' = [tasks EXCEPT ![1] = ReadEof(tasks[1])]
            /\ UNCHANGED stdout
       ELSE /\ stdout' = Tail(stdout)
            /\ tasks' = [tasks EXCEPT ![1] = ReadStep(tasks[1], Head(stdout))]
    /\ UNCHANGED <<stdin, pipe>>

\* StdioNotifyEffect reading a line after the write, as _rpc does.
StdioNotifyEffect_reads(in, out) ==
    [stdin |-> Append(in, 0), stdout |-> IF out = <<>> THEN out ELSE Tail(out)]

\* StdioMCPClient._notify on a running child, given the lines on its stdin
\* and its stdout: the line is written and flushed, no readline follows
\* (the line of a notification is marked 0 on stdin).
StdioNotifyEffect(in, out) == [stdin |-> Append(in, 0), stdout |-> out]

\* notify_initialized() on the client while the coroutines use it.
StdioNotify ==
    /\ NoiseCount < MaxNoise
    /\ \E out \in NotifyOutcomes(cli) :
        /\ DoNotify(cli, out)
        /\ IF out = Sent
           THEN /\ stdin' = StdioNotifyEffect(stdin, stdout).stdin
                /\ stdout' = StdioNotifyEffect(stdin, stdout).stdout
                /\ pipe' = Append(pipe, [ev |-> "notify", task |-> 0, re |-> 0, kind |-> "json"])
           ELSE UNCHANGED <<stdin, stdout, pipe>>
    /\ UNCHANGED <<cli, proc, pc, k, last_err, tasks>>

\* The child takes the oldest line of its stdin: a request is answered, a
\* notification is not.
ChildServe ==
    /\ proc[cli.name] = "running"
    /\ stdin # <<>>
    /\ stdin' = Tail(stdin)
    /\ stdout' = IF Head(stdin) = 0 THEN stdout ELSE Append(stdout, Line("json", Head(stdin)))
    /\ UNCHANGED <<tasks, pipe>>

\* The child writes a line that answers no request: a banner, a log line, a
\* message of its own.
ChildEmit ==
    /\ proc[cli.name] = "running"
    /\ NoiseCount < MaxNoise
    /\ \E line \in NoiseLines : stdout' = Append(stdout, line)
    /\ UNCHANGED <<tasks, stdin, pipe>>

\* ---------------------------------------------------------------- the app
\* A member of the planner's JSON plan: null or a string.
None == [null |-> TRUE, s |-> ""]

Str(s) == [null |-> FALSE, s |-> s]

\* `not v` for such a member.
Falsy(v) == v.null \/ v.s = ""

\* The plans the planner may give: server, tool and arguments.
PlanServers == {None, Str(""), Str("h1"), Str("p1"), Str("h2")}

PlanTools == {None, Str(""), Str("t1"), Str("t2")}

PlanArguments == {"emptyobj", "some"}

\* `resp.get("result") or resp.get("error")`: what st.json is given.
ShownJson(resp) ==
    IF resp.result.present THEN "result"
    ELSE IF HasError(resp) THEN "error"
    ELSE "null"

\* The script before any chat input; st.session_state.clients is None until
\* the sidebar button has run bootstrap_clients.
AppIdle ==
    [plan |-> [server |-> None, tool |-> None, arguments |-> "emptyobj"],
     bootstrapped |-> FALSE, called |-> FALSE, shown |-> "none", json |-> "none"]

\* The keys of st.session_state.clients.
RegistryKeys ==
    IF app.bootstrapped THEN {n \in Names : clients[n].kind # "none"} ELSE {}

\* NullPlan testing the server member only.
NullPlan_server_only(server, tool) == Falsy(server)

\* `not server or not tool`
NullPlan(server, tool) == Falsy(server) \/ Falsy(tool)

\* ServerMissing testing only that the dict is there and not empty.
ServerMissing_dict_only(server) == RegistryKeys = {}

\* `not clients or server not in clients`
ServerMissing(server) == RegistryKeys = {} \/ server.s \notin RegistryKeys

\* `except httpx.HTTPError`: what the handler around call_tool catches.
IsHTTPError(failure) == failure.src = "exc" /\ failure.fault \in HttpFaults

\* The script after `asyncio.run(cli.call_tool(tool, arguments))`: the
\* response shown, the HTTP error reported, or the exception leaving the run.
DispatchEnd(fin) ==
    IF fin.status = "returned" THEN [shown |-> "result", json |-> ShownJson(fin.value)]
    ELSE IF IsHTTPError(fin.failure) THEN [shown |-> "http_error", json |-> "none"]
    ELSE [shown |-> "uncaught", json |-> "none"]

\* The script from the parsed plan to its end: the fallback chat answer, the
\* "not initialized" error, or call_tool on the plan's server and the display
\* of what it gave.
Dispatch ==
    /\ pc = "idle"
    /\ \E server \in PlanServers, tool \in PlanTools, arguments \in PlanArguments :
        LET plan == [server |-> server, tool |-> tool, arguments |-> arguments] IN
        IF NullPlan(server, tool)
        THEN /\ app' = [app EXCEPT !.plan = plan, !.called = FALSE,
                                   !.shown = "chat", !.json = "none"]
             /\ UNCHANGED sessionVars
        ELSE IF ServerMissing(server)
        THEN /\ app' = [app EXCEPT !.plan = plan, !.called = FALSE,
                                   !.shown = "not_initialized", !.json = "none"]
             /\ UNCHANGED sessionVars
        ELSE IF server.s \notin RegistryKeys
        THEN /\ app' = [app EXCEPT !.plan = plan, !.called = FALSE,
                                   !.shown = "uncaught", !.json = "none"]
             /\ UNCHANGED sessionVars
        ELSE /\ call < MaxRuns
             /\ cli' = clients[server.s]
             /\ call' = call + 1
             /\ \E out \in RpcOutcomes(clients[server.s]) :
                 LET fin == CallToolFinish(call + 1, out) IN
                 /\ log' = log \o CallToolRpcs(call + 1, tool.s, out)
                 /\ outcome' = fin
                 /\ app' = [app EXCEPT !.plan = plan, !.called = TRUE,
                                       !.shown = DispatchEnd(fin).shown,
                                       !.json = DispatchEnd(fin).json]
             /\ UNCHANGED <<proc, pc, k, last_err>>

\* ------------------------------------------------- the HTTP POST, alone
\* No POST made yet.
HttpIdle == [n |-> 0, method |-> "", reply |-> NoReply, out |-> Resp(NoError, NoResult)]

\* The methods of the payloads the client posts.
Methods == {"initialize", "tools/list", "tools/call", "notifications/initialized"}

\* One HTTPMCPClient._rpc(payload), from the POST to its return or raise.
HttpPost ==
    /\ http.n < MaxPosts
    /\ \E method \in Methods, reply \in HttpReplies :
        http' = [n |-> http.n + 1, method |-> method, reply |-> reply, out |-> HttpRpc(reply)]

\* -------------------------------------------------------- specifications
SessionIdle ==
    /\ log = <<>>
    /\ pc = "idle"
    /\ k = 1
    /\ last_err = NoFailure
    /\ call = 0
    /\ outcome = NoOutcome

StdioIdle ==
    /\ tasks = [t \in Tasks |-> TaskIdle]
    /\ stdin = <<>>
    /\ stdout = <<>>
    /\ pipe = <<>>

\* One client, constructed, over either transport.
Init ==
    /\ \E kd \in {"http", "stdio"}, strict \in BOOLEAN :
        /\ cli = NewClient("s", kd, strict)
        /\ proc = [n \in Names |-> IF n = "s" /\ kd = "stdio" THEN "running" ELSE "none"]
    /\ SessionIdle
    /\ boot = BootIdle
    /\ clients = [n \in Names |-> NoClient]
    /\ StdioIdle
    /\ app = AppIdle
    /\ http = HttpIdle

Next ==
    \/ StartInitialize /\ UNCHANGED <<bootVars, stdioVars, appVars, httpVars>>
    \/ InitAttempt /\ UNCHANGED <<bootVars, stdioVars, appVars, httpVars>>
    \/ StartListTools /\ UNCHANGED <<bootVars, stdioVars, appVars, httpVars>>
    \/ ListAttempt /\ UNCHANGED <<bootVars, stdioVars, appVars, httpVars>>
    \/ CallTool /\ UNCHANGED <<bootVars, stdioVars, appVars, httpVars>>
    \/ NotifyInitialized /\ UNCHANGED <<bootVars, stdioVars, appVars, httpVars>>
    \/ ChildExit /\ UNCHANGED <<bootVars, stdioVars, appVars, httpVars>>

Spec == Init /\ [][Next]_vars

\* bootstrap_clients called with MCP_HTTP, MCP_STDIO and MCP_INIT_NOTIFY set.
HttpConfigs == {<<>>, <<"h1">>, <<"h1", "h2">>}

StdioConfigs == {<<>>, <<"p1">>, <<"p1", "p2">>}

NotifyLists == {{}, {"p1"}}

InitBoot ==
    /\ cli = NoClient
    /\ proc = [n \in Names |-> "none"]
    /\ SessionIdle
    /\ \E h \in HttpConfigs, p \in StdioConfigs, nl \in NotifyLists, strict \in BOOLEAN :
        boot = [pc |-> "http_next", http_cfg |-> h, stdio_cfg |-> p, notify_list |-> nl,
                strict |-> strict, i |-> 1, tried |-> {}]
    /\ clients = [n \in Names |-> NoClient]
    /\ StdioIdle
    /\ app = AppIdle
    /\ http = HttpIdle

NextBoot ==
    \/ BootHttpNext /\ UNCHANGED <<stdioVars, appVars, httpVars>>
    \/ BootHttpAfterInit /\ UNCHANGED <<stdioVars, appVars, httpVars>>
    \/ BootHttpAfterList /\ UNCHANGED <<stdioVars, appVars, httpVars>>
    \/ BootStdioNext /\ UNCHANGED <<stdioVars, appVars, httpVars>>
    \/ BootStdioAfterInit /\ UNCHANGED <<stdioVars, appVars, httpVars>>
    \/ BootStdioNotify /\ UNCHANGED <<stdioVars, appVars, httpVars>>
    \/ BootStdioAfterNotify /\ UNCHANGED <<stdioVars, appVars, httpVars>>
    \/ BootStdioAfterList /\ UNCHANGED <<stdioVars, appVars, httpVars>>
    \/ InitAttempt /\ UNCHANGED <<bootVars, stdioVars, appVars, httpVars>>
    \/ ListAttempt /\ UNCHANGED <<bootVars, stdioVars, appVars, httpVars>>
    \/ ChildExit /\ UNCHANGED <<bootVars, stdioVars, appVars, httpVars>>

SpecBoot == InitBoot /\ [][NextBoot]_vars

\* One StdioMCPClient and two coroutines that each call call_tool on it.
InitStdio ==
    /\ \E strict \in BOOLEAN : cli = NewClient("s", "stdio", strict)
    /\ proc = [n \in Names |-> IF n = "s" THEN "running" ELSE "none"]
    /\ SessionIdle
    /\ boot = BootIdle
    /\ clients = [n \in Names |-> NoClient]
    /\ StdioIdle
    /\ app = AppIdle
    /\ http = HttpIdle

NextStdio ==
    \/ \E t \in Tasks : TaskSend(t) /\ UNCHANGED <<sessionVars, bootVars, appVars, httpVars>>
    \/ \E t \in Tasks : TaskReadLine(t) /\ UNCHANGED <<sessionVars, bootVars, appVars, httpVars>>
    \/ ChildServe /\ UNCHANGED <<sessionVars, bootVars, appVars, httpVars>>
    \/ ChildEmit /\ UNCHANGED <<sessionVars, bootVars, appVars, httpVars>>
    \/ StdioNotify /\ UNCHANGED <<bootVars, appVars, httpVars>>
    \/ ChildExit /\ UNCHANGED <<bootVars, stdioVars, appVars, httpVars>>

SpecStdio == InitStdio /\ [][NextStdio]_vars

\* The app with the dict the sidebar button left (none before it ran) and one
\* chat input after the other, each giving a plan.
Registries == {{}, {"h1"}, {"h1", "p1"}}

InitDispatch ==
    /\ cli = NoClient
    /\ SessionIdle
    /\ boot = BootIdle
    /\ StdioIdle
    /\ \E keys \in Registries, ran \in BOOLEAN :
        /\ ~ran => keys = {}
        /\ clients = [n \in Names |->
                IF n \in keys
                THEN [NewClient(n, IF n \in HttpNames THEN "http" ELSE "stdio", TRUE)
                        EXCEPT !.tools = <<"t1", "t2">>]
                ELSE NoClient]
        /\ proc = [n \in Names |-> IF n \in keys \cap StdioNames THEN "running" ELSE "none"]
        /\ app = [AppIdle EXCEPT !.bootstrapped = ran]
    /\ http = HttpIdle

NextDispatch ==
    \/ Dispatch /\ UNCHANGED <<bootVars, stdioVars, httpVars>>
    \/ ChildExit /\ UNCHANGED <<bootVars, stdioVars, appVars, httpVars>>

SpecDispatch == InitDispatch /\ [][NextDispatch]_vars

\* One StdioMCPClient whose _rpc has written its request and calls
\* _read_json_line; the event loop runs the reader whenever its readline has
\* come back.
InitFramer ==
    /\ cli = NewClient("s", "stdio", TRUE)
    /\ proc = [n \in Names |-> IF n = "s" THEN "running" ELSE "none"]
    /\ SessionIdle
    /\ boot = BootIdle
    /\ clients = [n \in Names |-> NoClient]
    /\ tasks = [t \in Tasks |-> IF t = 1 THEN [TaskIdle EXCEPT !.pc = "reading"] ELSE TaskIdle]
    /\ stdin = <<>>
    /\ stdout = <<>>
    /\ pipe = <<>>
    /\ app = AppIdle
    /\ http = HttpIdle

FramerReads == FramerRead /\ UNCHANGED <<sessionVars, bootVars, appVars, httpVars>>

NextFramer ==
    \/ FramerFeed /\ UNCHANGED <<sessionVars, bootVars, appVars, httpVars>>
    \/ FramerReads
    \/ ChildExit /\ UNCHANGED <<bootVars, stdioVars, appVars, httpVars>>

SpecFramer == InitFramer /\ [][NextFramer]_vars /\ WF_vars(FramerReads)

\* One HTTPMCPClient and the requests posted through its _rpc.
InitHttp ==
    /\ cli = NewClient("h1", "http", TRUE)
    /\ proc = [n \in Names |-> "none"]
    /\ SessionIdle
    /\ boot = BootIdle
    /\ clients = [n \in Names |-> NoClient]
    /\ StdioIdle
    /\ app = AppIdle
    /\ http = HttpIdle

NextHttp == HttpPost /\ UNCHANGED <<sessionVars, bootVars, stdioVars, appVars>>

SpecHttp == InitHttp /\ [][NextHttp]_vars

\* ------------------------------------------------------------------ claims
\* The log entries of method call n, in order.
CallEntries(n) == SelectSeq(log, LAMBDA e : e.call = n)

\* Method call n has returned or raised.
Finished(n) == n < call \/ (n = call /\ pc = "idle")

IsPrefix(s, t) == Len(s) <= Len(t) /\ \A i \in 1..Len(s) : s[i] = t[i]

ParamsOf(es) == [i \in 1..Len(es) |-> es[i].params]

\* A response with no top-level error member.
Accepted(out) == out.t = "resp" /\ ~out.error.present

\* A response whose error is a dict with the invalid-params code.
IsInvalidParams(out) ==
    out.t = "resp" /\ out.error.present /\ out.error.isdict /\ out.error.code = -32602

\* A response with an error member that is no invalid-params error.
IsOtherError(out) == out.t = "resp" /\ out.error.present /\ ~IsInvalidParams(out)

\* What a raise carries of a failed _rpc: the error member, or the exception.
FailureOf(out) ==
    IF out.t = "exc" THEN [src |-> "exc", error |-> NoError, fault |-> out.fault]
    ELSE [src |-> "error", error |-> out.error, fault |-> ""]

InitCalls == {n \in 1..call : CallEntries(n) # <<>> /\ CallEntries(n)[1].op = "initialize"}

ListCalls == {n \in 1..call : CallEntries(n) # <<>> /\ CallEntries(n)[1].op = "list_tools"}

\* C1: the initialize requests of one initialize call are a prefix of the
\* configured order (Strict, Minimal, Empty with the flag set; Minimal, Empty,
\* Strict without it), at most three, none follows a response without an
\* error member, and the call does not end before such a response or the
\* third request.
C1_InitOrder ==
    \A n \in InitCalls :
        LET es == CallEntries(n) IN
        /\ Len(es) <= 3
        /\ \A i \in 1..Len(es) : es[i].method = "initialize"
        /\ IsPrefix(ParamsOf(es), IF cli.strict_init
                                  THEN <<"Strict", "Minimal", "Empty">>
                                  ELSE <<"Minimal", "Empty", "Strict">>)
        /\ \A i \in 1..(Len(es) - 1) : ~Accepted(es[i].out)
        /\ Finished(n) => (Accepted(es[Len(es)].out) \/ Len(es) = 3)

\* An initialize call with the flag reversed that was accepted at its third
\* request, the Strict one.
C1_Witness ==
    /\ ~cli.strict_init
    /\ pc = "idle"
    /\ outcome.op = "initialize"
    /\ outcome.status = "returned"
    /\ Len(CallEntries(outcome.call)) = 3
    /\ CallEntries(outcome.call)[3].params = "Strict"

ReadyBefore(i) ==
    LET I == {j \in 1..(i - 1) : log[j].op = "initialize"} IN
    /\ I # {}
    /\ Accepted(log[CHOOSE j \in I : \A m \in I : m <= j].out)

\* C3: no tools/list or tools/call request goes out on the transport of a
\* client whose handshake was never run or ended in failure.
C3_UsableOnlyWhenReady ==
    \A i \in 1..Len(log) :
        (log[i].op \in {"list_tools", "call_tool"} /\ log[i].wire) => ReadyBefore(i)

\* C4: on the child's pipes, between two writes of request lines lies the read
\* of the reply to the first of them, by the coroutine that wrote it.
C4_NoInterleaving ==
    \A i, j \in 1..Len(pipe) :
        (i < j /\ pipe[i].ev = "write" /\ pipe[j].ev = "write") =>
            \E m \in (i + 1)..(j - 1) :
                /\ pipe[m].ev = "read"
                /\ pipe[m].kind = "json"
                /\ pipe[m].task = pipe[i].task

\* C5: the ids of the requests of one client are pairwise distinct.
C5_FreshIds ==
    \A i, j \in 1..Len(log) :
        (i < j /\ log[i].has_id /\ log[j].has_id) => log[i].id # log[j].id

\* C6: the tools/list requests of one list_tools call are a prefix of omitted,
\* {}, null; a request is followed by the next shape exactly when its response
\* carries error code -32602; and after -32602 for omitted params and a
\* response without error for {}, list_tools has returned after two requests
\* with the catalog of that response.
C6_DiscoveryShapes ==
    \A n \in ListCalls :
        LET es == CallEntries(n) IN
        /\ IsPrefix(ParamsOf(es), <<"omitted", "emptyobj", "null">>)
        /\ \A i \in 1..Len(es) : es[i].method = "tools/list"
        /\ \A i \in 1..(Len(es) - 1) : IsInvalidParams(es[i].out)
        /\ Finished(n) => (Len(es) = 3 \/ ~IsInvalidParams(es[Len(es)].out))
        /\ (Finished(n) /\ Len(es) >= 2 /\ Accepted(es[2].out)) =>
            /\ Len(es) = 2
            /\ n = outcome.call =>
                /\ outcome.status = "returned"
                /\ es[2].out.result.has_tools => cli.tools = es[2].out.result.tools

\* -32602 to omitted params, then a tool list to {}: the catalog holds it.
C6_Witness ==
    /\ pc = "idle"
    /\ outcome.op = "list_tools"
    /\ outcome.status = "returned"
    /\ LET es == CallEntries(outcome.call) IN
        /\ Len(es) = 2
        /\ es[1].params = "omitted"
        /\ IsInvalidParams(es[1].out)
        /\ es[2].params = "emptyobj"
        /\ es[2].out.result = ResultA
    /\ cli.tools = <<"t1", "t2">>

\* C7: a tools/list response with an error other than -32602 is the last
\* request of its list_tools call, at whichever attempt it comes, and
\* list_tools raises that same error.
C7_OtherErrorStops ==
    /\ \A n \in ListCalls :
        LET es == CallEntries(n) IN
        \A i \in 1..Len(es) : IsOtherError(es[i].out) => i = Len(es)
    /\ (outcome.op = "list_tools" /\ CallEntries(outcome.call) # <<>>) =>
        LET es == CallEntries(outcome.call) IN
        IsOtherError(es[Len(es)].out) =>
            /\ outcome.status = "raised"
            /\ outcome.failure = FailureOf(es[Len(es)].out)

\* A non-params error at the third attempt, surfaced by list_tools.
C7_Witness ==
    /\ pc = "idle"
    /\ outcome.op = "list_tools"
    /\ outcome.status = "raised"
    /\ LET es == CallEntries(outcome.call) IN
        /\ Len(es) = 3
        /\ IsOtherError(es[3].out)
        /\ es[3].out.error.code = -32000

\* C8: one call_tool invocation hands exactly one tools/call request to the
\* transport, and when that request ends in a transport fault or an error
\* response, call_tool raises that failure.
C8_NoRetry ==
    /\ \A n \in 1..call :
        LET es == CallEntries(n) IN
        (es # <<>> /\ es[1].op = "call_tool") => Len(es) = 1
    /\ outcome.op = "call_tool" =>
        LET es == CallEntries(outcome.call) IN
        /\ Len(es) = 1
        /\ es[1].method = "tools/call"
        /\ ~Accepted(es[1].out) =>
            /\ outcome.status = "raised"
            /\ outcome.failure = FailureOf(es[1].out)

\* A call_tool that met a transport fault after an earlier method call.
C8_Witness ==
    /\ outcome.op = "call_tool"
    /\ outcome.status = "raised"
    /\ outcome.failure.src = "exc"
    /\ outcome.call > 1

\* The names of the descriptors bootstrap_clients was given.
Configured ==
    {boot.http_cfg[i] : i \in 1..Len(boot.http_cfg)}
    \cup {boot.stdio_cfg[i] : i \in 1..Len(boot.stdio_cfg)}

\* C9: when bootstrap_clients, given two descriptors or more, is over, it has
\* returned its dict and every descriptor was bootstrapped, whichever of them
\* failed.
C9_BootstrapIndependent ==
    (boot.pc \in {"raised", "returned"} /\ Cardinality(Configured) >= 2) =>
        /\ boot.pc = "returned"
        /\ boot.tried = Configured

\* C10: when bootstrap_clients ends by a raise, every child it spawned has
\* been terminated.
C10_ChildrenTerminated ==
    boot.pc = "raised" =>
        \A n \in Names : proc[n] # "none" => proc[n] = "terminated"

\* C11: call_tool hands its caller the whole response object for every
\* response its _rpc delivered, one with an error member included.
C11_FullEnvelope ==
    outcome.op = "call_tool" =>
        LET es == CallEntries(outcome.call) IN
        es[1].out.t = "resp" =>
            /\ outcome.status = "returned"
            /\ outcome.value = es[1].out

\* C12: a script run whose plan has a null or empty server or tool ends in the
\* fallback chat answer and adds no call on any client, whatever the
\* arguments and whatever the dict holds.
C12_NullPlanNoCall ==
    [][(app' # app /\ (Falsy(app'.plan.server) \/ Falsy(app'.plan.tool))) =>
        /\ app'.shown = "chat"
        /\ ~app'.called
        /\ log' = log
        /\ call' = call
        /\ outcome' = outcome]_vars

\* A plan naming a server of the dict with an empty tool, answered by chat
\* after an earlier plan was called.
C12_Witness ==
    /\ app.shown = "chat"
    /\ app.plan.server = Str("h1")
    /\ app.plan.tool = Str("")
    /\ "h1" \in RegistryKeys
    /\ Len(log) = 1

\* C13: a script run whose plan has a non-empty server and tool, the server
\* being no key of the dict, ends in the "not initialized" error and calls
\* call_tool on no client.
C13_UnknownServer ==
    [][(/\ app' # app
        /\ ~Falsy(app'.plan.server)
        /\ ~Falsy(app'.plan.tool)
        /\ app'.plan.server.s \notin RegistryKeys) =>
        /\ app'.shown = "not_initialized"
        /\ ~app'.called
        /\ log' = log
        /\ call' = call
        /\ outcome' = outcome]_vars

\* A plan for h2 met a dict that holds h1 and p1 only.
C13_Witness ==
    /\ app.shown = "not_initialized"
    /\ app.plan.server = Str("h2")
    /\ app.plan.tool = Str("t1")
    /\ RegistryKeys = {"h1", "p1"}

\* C14: when call_tool raised in a script run, whatever it raised, the run
\* ends with the failure reported by the handler around the call; no raised
\* error leaves the run unhandled.
C14_FailureWrapped ==
    (app.called /\ outcome.status = "raised") => app.shown = "http_error"

\* C15: during bootstrap_clients a notifications/initialized line goes only
\* to a server named in the notify list, and only after that server's
\* initialize was accepted; notify_initialized is called on no other server.
C15_NotifyOnlyConfigured ==
    /\ \A i \in 1..Len(log) :
        log[i].method = "notifications/initialized" =>
            /\ cli.name \in boot.notify_list
            /\ ReadyBefore(i)
    /\ (outcome.op = "notify_initialized" \/ boot.pc = "stdio_notify") =>
        /\ cli.name \in boot.notify_list
        /\ \E j \in 1..Len(log) : log[j].op = "initialize" /\ Accepted(log[j].out)

\* p1, named in the notify list, was sent the notification after its second
\* initialize attempt was accepted, and its discovery is under way.
C15_Witness ==
    /\ boot.pc = "stdio_list"
    /\ cli.name = "p1"
    /\ Len(log) = 3
    /\ ~Accepted(log[1].out)
    /\ Accepted(log[2].out)
    /\ log[3].method = "notifications/initialized"
    /\ log[3].wire

\* C16: whatever the send of the notification meets, notify_initialized
\* returns normally, and bootstrap_clients does not end by its failure.
C16_NotifySwallowed ==
    outcome.op = "notify_initialized" =>
        /\ outcome.status = "returned"
        /\ boot.pc # "raised"

\* The coroutines whose request lines were written, in the order of the writes.
WrittenRequests ==
    LET w == SelectSeq(pipe, LAMBDA e : e.ev = "write") IN [i \in 1..Len(w) |-> w[i].task]

\* The requests whose replies were read, in the order of the reads.
ReadReplies ==
    LET r == SelectSeq(pipe, LAMBDA e : e.ev = "read" /\ e.re # 0) IN [i \in 1..Len(r) |-> r[i].re]

\* C17: a notification on the subprocess transport writes one line to the
\* child's stdin and reads none from its stdout, no reader moves by it, and
\* the replies are read in the order of their requests, a notification
\* between them or not.
C17_NotifyReadsNothing ==
    /\ [](IsPrefix(ReadReplies, WrittenRequests))
    /\ [][(Len(pipe') = Len(pipe) + 1 /\ pipe'[Len(pipe')].ev = "notify") =>
            /\ stdin' = Append(stdin, 0)
            /\ stdout' = stdout
            /\ tasks' = tasks]_vars

\* A notification was written while a request's reply sat unread on stdout;
\* the request's coroutine then read that reply.
C17_Witness ==
    \E t \in Tasks :
        /\ tasks[t].pc = "returned"
        /\ tasks[t].got = t
        /\ \E i, j, m \in 1..Len(pipe) :
            /\ i < j /\ j < m
            /\ pipe[i].ev = "write" /\ pipe[i].task = t
            /\ pipe[j].ev = "notify"
            /\ pipe[m].ev = "read" /\ pipe[m].task = t /\ pipe[m].re = t

\* C18: a request sent on the subprocess transport when the child has already
\* exited raises the "process exited" error at once: no line is written to
\* the child's stdin and none is read from its stdout.
C18_ExitedFailsFast ==
    [][\A t \in Tasks :
        (tasks[t].pc = "ready" /\ tasks'[t].pc # "ready" /\ proc[cli.name] # "running") =>
            /\ tasks'[t].pc = "raised"
            /\ tasks'[t].fault = "process_exited"
            /\ tasks'[t].n = 0
            /\ stdin' = stdin
            /\ stdout' = stdout
            /\ pipe' = pipe]_vars

\* One coroutine got its reply, the child exited with a line still unread on
\* its stdout, and the other coroutine's send raised without touching it.
C18_Witness ==
    /\ proc[cli.name] = "exited"
    /\ tasks[1].pc = "returned"
    /\ tasks[2].pc = "raised"
    /\ tasks[2].fault = "process_exited"
    /\ stdout # <<>>
    /\ \A i \in 1..Len(pipe) : pipe[i].task # 2

\* The lines coroutine t has read in its _read_json_line, in order.
ReadsOf(t) == SelectSeq(pipe, LAMBDA e : e.ev = "read" /\ e.task = t)

\* C19: _read_json_line returns the first line it reads that is a JSON value:
\* every line read before it was banner text, blank or unparsable and was
\* passed over without a raise, the returned line is the last one the call
\* read, and inside the budget of lines no such line makes the call give up.
C19_FirstJsonLine ==
    \A t \in Tasks :
        LET rs == ReadsOf(t) IN
        /\ tasks[t].n = Len(rs)
        /\ \A i \in 1..(Len(rs) - 1) : rs[i].kind \in {"noise", "blank", "badjson"}
        /\ tasks[t].pc = "returned" =>
            /\ rs # <<>>
            /\ rs[Len(rs)].kind = "json"
            /\ tasks[t].got = rs[Len(rs)].re
        /\ tasks[t].pc = "reading" =>
            \A i \in 1..Len(rs) : rs[i].kind \in {"noise", "blank", "badjson"}
        /\ (tasks[t].pc = "raised" /\ tasks[t].fault = "gave up") => Len(rs) >= READ_BUDGET

\* A blank line and an unparsable line were passed over, the JSON line after
\* them was returned, and a later line is still unread on stdout.
C19_Witness ==
    /\ tasks[1].pc = "returned"
    /\ Len(ReadsOf(1)) = 3
    /\ ReadsOf(1)[1].kind = "blank"
    /\ ReadsOf(1)[2].kind = "badjson"
    /\ ReadsOf(1)[3] = [ev |-> "read", task |-> 1, re |-> 1, kind |-> "json"]
    /\ stdout # <<>>

\* C20: a call of _read_json_line always comes to an end: by its return, or
\* by a raise after at most 500 lines read.
C20_Terminates == <>(tasks[1].pc # "reading")

\* C21: when readline meets the end of the child's stdout before a JSON line
\* was found, _read_json_line raises its "no stdout" error at that read,
\* with lines of the budget left; the error is another one than the "gave
\* up" error, which is raised only when the budget of 500 lines is used up.
C21_EndOfStream ==
    /\ [](/\ tasks[1].fault = "no stdout" =>
                /\ tasks[1].pc = "raised"
                /\ tasks[1].n < READ_BUDGET
          /\ tasks[1].fault = "gave up" =>
                /\ tasks[1].pc = "raised"
                /\ tasks[1].n = READ_BUDGET)
    /\ [][(/\ tasks[1].pc = "reading"
           /\ stdout = <<>>
           /\ proc[cli.name] # "running"
           /\ tasks' # tasks) =>
            /\ tasks'[1].pc = "raised"
            /\ tasks'[1].fault = "no stdout"
            /\ tasks'[1].n = tasks[1].n]_vars

\* Two lines were passed over, then the child exited and the read met the end
\* of the stream.
C21_Witness ==
    /\ tasks[1].pc = "raised"
    /\ tasks[1].fault = "no stdout"
    /\ tasks[1].n = 2
    /\ proc[cli.name] = "exited"

\* C22: after list_tools has returned, the client's tools are exactly the
\* tools list of the response it accepted, in the response's order (the empty
\* list when the response holds none), with nothing of an earlier catalog.
C22_CatalogReplaced ==
    (outcome.op = "list_tools" /\ outcome.status = "returned") =>
        LET es == CallEntries(outcome.call)
            r == es[Len(es)].out.result
        IN  /\ outcome.value = es[Len(es)].out
            /\ cli.tools = IF r.present /\ r.has_tools THEN r.tools ELSE <<>>

\* A first discovery gave t1, t2; a second one gave t2 alone, and t1 is gone.
C22_Witness ==
    /\ outcome.op = "list_tools"
    /\ outcome.status = "returned"
    /\ outcome.call = 2
    /\ Len(log) = 2
    /\ log[1].op = "list_tools"
    /\ log[1].out.result = ResultA
    /\ log[2].out.result = ResultB
    /\ cli.tools = <<"t2">>

\* C23: when initialize has returned and the accepted response's result holds
\* a protocol version, the client object holds that version afterwards.
C23_VersionRecorded ==
    (outcome.op = "initialize" /\ outcome.status = "returned") =>
        LET v == outcome.value.result.protocolVersion IN
        v # "" => v \in StringAttrs(cli)

\* The tools list of the last tools/list response that list_tools accepted,
\* the empty list when there was none.
LastCatalog ==
    LET L == {i \in 1..Len(log) : log[i].op = "list_tools" /\ Accepted(log[i].out)} IN
    IF L = {} THEN <<>>
    ELSE LET r == log[CHOOSE i \in L : \A j \in L : j <= i].out.result IN
         IF r.present /\ r.has_tools THEN r.tools ELSE <<>>

C25_HttpSend ==
    http.n > 0 =>
        /\ (http.reply.t = "reply" /\ ~http.reply.ok) => http.out = Exc("http_status")
        /\ (http.reply.t = "reply" /\ http.reply.ok /\ http.reply.body # "json") =>
            http.out = Resp(NoError, NoResult)
        /\ (http.reply.t = "reply" /\ http.reply.ok /\ http.reply.body = "json") =>
            /\ http.out.t = "resp"
            /\ http.out = http.reply.value

\* A 2xx response whose body holds a JSON-RPC error came back as a value.
C25_Witness ==
    /\ http.n = 2
    /\ http.reply = HttpReply(TRUE, "json", Resp(ErrDict(-32000), NoResult))
    /\ http.out = Resp(ErrDict(-32000), NoResult)

\* C26: the value StdioMCPClient._rpc returns to a caller is the reply to the
\* request that caller wrote, whatever else the child has put on its stdout.
C26_ReplyCorrelated ==
    \A t \in Tasks : tasks[t].pc = "returned" => tasks[t].got = t

\* The log of the client being bootstrapped shows an accepted initialize, then
\* at most one notification, then an accepted tools/list as its last entry.
BootstrappedLog ==
    \E i, j \in 1..Len(log) :
        /\ i < j
        /\ j = Len(log)
        /\ log[i].op = "initialize" /\ Accepted(log[i].out)
        /\ log[j].op = "list_tools" /\ Accepted(log[j].out)
        /\ \A m \in 1..Len(log) :
            /\ log[m].op = "initialize" => m <= i
            /\ log[m].op = "list_tools" => m > i
            /\ log[m].op = "notify_initialized" =>
                /\ m > i
                /\ \A q \in 1..Len(log) : log[q].op = "list_tools" => m < q

\* C27: a client enters the dict of bootstrap_clients only when its
\* initialize and then its list_tools have returned on accepted responses,
\* the notification, if any, between the two; the client inserted is the one
\* just bootstrapped, with the tools of that discovery.
C27_OnlyBootstrapped ==
    /\ [](\A n \in Names : clients[n].kind # "none" =>
            /\ clients[n].name = n
            /\ n \in boot.tried)
    /\ [][\A n \in Names :
            clients'[n] # clients[n] =>
                /\ clients[n].kind = "none"
                /\ n = cli.name
                /\ clients'[n] = cli
                /\ BootstrappedLog
                /\ cli.tools = LastCatalog]_vars

\* p1 entered the dict after initialize, the notification and list_tools, and
\* h1 had entered it before.
C27_Witness ==
    /\ clients["h1"].kind = "http"
    /\ clients["p1"].kind = "stdio"
    /\ cli.name = "p1"
    /\ Len(log) = 3
    /\ log[2].op = "notify_initialized"
    /\ clients["p1"].tools = <<"t2">>

====
